---- MODULE Spec2Model ----
(***************************************************************************)
(* A model of packages/duckdb-wasm/src/parallel/async_connection.ts:       *)
(*   AsyncResultStreamIterator   (first / depleted / inFlight, next())     *)
(*   AsyncDuckDBConnection.insertArrowBatches                              *)
(*   AsyncPreparedStatement      (close / run / send)                      *)
(* An async method is a sequence of atomic segments: one from the call to  *)
(* its first await (or return), and one per resumption after an await.     *)
(* The Binding Surface (AsyncDuckDB) is the environment: it settles the    *)
(* promises of a connection in the order the requests were issued.         *)
(***************************************************************************)
EXTENDS Integers, Sequences, FiniteSets, TLC

\* ---------------------------------------------------------------- bounds
\* next() calls made on the iterators in one behaviour
MaxCalls == 6
\* number of iterators (each constructed on its own connection)
NumIters == 2
\* longest batch sequence handed to insertArrowBatches
MaxBatches == 3
\* number of distinct batch contents
NumBatchData == 2
\* run/send/close calls made on the prepared statement in one behaviour
MaxStmtCalls == 3
\* runQuery/sendQuery/close calls made on the connection in one behaviour
MaxConnCalls == 2
\* next() calls made while the connection's own methods are called as well
MaxConnIterCalls == 3
\* the calls made on the iterators together when several are driven
MaxMultiCalls == 5
\* the data chunks a result holds when the result is finite
MaxChunks == 3

VARIABLES
    \* --- AsyncResultStreamIterator, one per element of Iters
    first,       \* first[i]    : this._first
    depleted,    \* depleted[i] : this._depleted
    inFlight,    \* inFlight[i] : this._inFlight, 0 for null, else a fetch id
    fetches,     \* every db.fetchQueryResults promise issued, by fetch id
    produced,    \* produced[c] : non-empty chunks the engine has returned on c
    calls,       \* every next() call made, in call order
    \* --- insertArrowBatches
    batches,     \* the batch sequence argument
    options,     \* the options argument
    insPc,       \* where the method is
    insFirst,    \* the local `first`
    consumed,    \* batches the for-of loop has taken so far
    ipcBuffer,   \* utils.IPCBuffer: the messages written and not yet flushed
    writerLog,   \* every writer call made: reset, write(k), finish
    ingests,     \* every bindings.insertArrowFromIPCStream promise issued
    insResult,   \* how the promise of insertArrowBatches settled
    \* --- AsyncPreparedStatement
    stmtCalls,   \* every close/run/send call made, in call order
    requests,    \* every closePrepared/runPrepared/sendPrepared promise issued
    released,    \* the engine has released the statement identifier
    \* --- AsyncDuckDBConnection
    connCalls,   \* every runQuery/sendQuery/close call made, in call order
    connReqs,    \* every runQuery/sendQuery/disconnect promise issued
    connClosed   \* the engine has released the connection identifier

iterVars == <<first, depleted, inFlight, fetches, produced, calls>>
insVars == <<batches, options, insPc, insFirst, consumed, ipcBuffer, writerLog,
             ingests, insResult>>
stmtVars == <<stmtCalls, requests, released>>
connVars == <<connCalls, connReqs, connClosed>>
vars == <<iterVars, insVars, stmtVars, connVars>>

\* ------------------------------------------------------------ values
Iters == 1..NumIters
\* the iterator driven by the single-iterator specifications
MainIter == 1
\* the `conn` an iterator was constructed with
IterConn(i) == i
Conns == {IterConn(i) : i \in Iters}

\* a Uint8Array is a sequence; the header of iterator i, and the engine's
\* k-th non-empty chunk on a connection
Header(i) == <<0, i>>
Chunk(k) == <<k>>
EmptyChunk == <<>>

\* the `value` of an IteratorResult: a buffer, or null
Bytes(b) == [tag |-> "bytes", bytes |-> b]
NullValue == [tag |-> "null", bytes |-> <<>>]

\* how a promise returned by an async method settled
Fulfilled(d, v) == [kind |-> "fulfilled", done |-> d, value |-> v, error |-> 0]
Rejected(e) == [kind |-> "rejected", done |-> FALSE, value |-> NullValue, error |-> e]
NoResult == [kind |-> "none", done |-> FALSE, value |-> NullValue, error |-> 0]

\* ------------------------------------------------- the iterator's state
IterInit ==
    /\ first = [i \in Iters |-> TRUE]
    /\ depleted = [i \in Iters |-> FALSE]
    /\ inFlight = [i \in Iters |-> 0]
    /\ fetches = <<>>
    /\ produced = [c \in Conns |-> 0]
    /\ calls = <<>>

\* a fetch issued with one connection identifier shared by every iterator
NewFetchSharedConn(i, c) ==
    [iter |-> i, conn |-> IterConn(MainIter), by |-> c, status |-> "pending",
     value |-> <<>>]

\* db.fetchQueryResults(this.conn), issued by call c of iterator i
NewFetch(i, c) ==
    [iter |-> i, conn |-> IterConn(i), by |-> c, status |-> "pending", value |-> <<>>]

\* this._first = false, after the header has been handed out
FirstKept == TRUE
FirstAfterHeader == FALSE

\* this._depleted = buffer.length == 0
DepletedNever(buffer) == FALSE
DepletedOf(buffer) == Len(buffer) = 0

\* if (!this._depleted) this._inFlight = this.db.fetchQueryResults(this.conn)
PrefetchAlways(dep) == TRUE
Prefetches(dep) == ~dep

\* `await p` throws when p is rejected, and yields p's value otherwise
ThrowsNever(f) == FALSE
Throws(f) == fetches[f].status = "rejected"

\* a call suspended at an await whose promise has settled
Ready(c) ==
    /\ calls[c].pc = "await"
    /\ fetches[calls[c].awaiting].status # "pending"

\* a call of iterator i is suspended at an await
Pending(i) == \E c \in 1..Len(calls) : calls[c].iter = i /\ calls[c].pc = "await"

\* the record of a next() call on iterator i.  overlap and onDepleted note
\* what the call found: an earlier call still suspended, the depleted flag set.
NewCall(i, pc, f, via, r) ==
    [iter |-> i, pc |-> pc, awaiting |-> f, viaInFlight |-> via, result |-> r,
     overlap |-> Pending(i), onDepleted |-> depleted[i]]

\* the first segment of next(): from the call to its return or its await
NextCall(i) ==
    /\ Len(calls) < MaxCalls
    /\ LET c == Len(calls) + 1 IN
       IF first[i] THEN
            /\ first' = [first EXCEPT ![i] = FirstAfterHeader]
            /\ calls' = Append(calls, NewCall(i, "done", 0, FALSE,
                                              Fulfilled(FALSE, Bytes(Header(i)))))
            /\ UNCHANGED <<depleted, inFlight, fetches>>
       ELSE IF depleted[i] THEN
            /\ calls' = Append(calls, NewCall(i, "done", 0, FALSE,
                                              Fulfilled(TRUE, NullValue)))
            /\ UNCHANGED <<first, depleted, inFlight, fetches>>
       ELSE IF inFlight[i] # 0 THEN
            /\ calls' = Append(calls, NewCall(i, "await", inFlight[i], TRUE, NoResult))
            /\ UNCHANGED <<first, depleted, inFlight, fetches>>
       ELSE
            /\ fetches' = Append(fetches, NewFetch(i, c))
            /\ calls' = Append(calls, NewCall(i, "await", Len(fetches) + 1, FALSE,
                                              NoResult))
            /\ UNCHANGED <<first, depleted, inFlight>>
    /\ UNCHANGED produced

\* the second segment of next(): the awaited fetch has settled.  Continuations
\* run in the order they were queued, which is the order of the calls.
Resume(c) ==
    /\ c \in 1..Len(calls)
    /\ Ready(c)
    /\ \A d \in 1..(c - 1) : ~Ready(d)
    /\ LET i == calls[c].iter
           f == fetches[calls[c].awaiting]
       IN
       IF Throws(calls[c].awaiting) THEN
            \* the await throws: next() rejects, no field is assigned
            /\ calls' = [calls EXCEPT ![c].pc = "done",
                                      ![c].result = Rejected(calls[c].awaiting)]
            /\ UNCHANGED <<first, depleted, inFlight, fetches>>
       ELSE
            LET buffer == f.value
                dep == DepletedOf(buffer)
            IN
            /\ depleted' = [depleted EXCEPT ![i] = dep]
            /\ IF Prefetches(dep) THEN
                    /\ fetches' = Append(fetches, NewFetch(i, c))
                    /\ inFlight' = [inFlight EXCEPT ![i] = Len(fetches) + 1]
               ELSE
                    /\ fetches' = fetches
                    /\ inFlight' = [inFlight EXCEPT ![i] =
                                        IF calls[c].viaInFlight THEN 0 ELSE @]
            /\ calls' = [calls EXCEPT ![c].pc = "done",
                                      ![c].result = Fulfilled(dep, Bytes(buffer))]
            /\ UNCHANGED first
    /\ UNCHANGED produced

\* the oldest fetch of its connection that has not settled
Oldest(f) ==
    /\ fetches[f].status = "pending"
    /\ \A g \in 1..(f - 1) :
            fetches[g].conn = fetches[f].conn => fetches[g].status # "pending"

\* The Binding Surface settles a fetch once every continuation queued by the
\* previous settlement has run: with a non-empty chunk, with the zero-length
\* chunk, or with an error.
FetchChunk(f) ==
    /\ f \in 1..Len(fetches)
    /\ Oldest(f)
    /\ \A c \in 1..Len(calls) : ~Ready(c)
    /\ fetches' = [fetches EXCEPT ![f].status = "fulfilled",
                                  ![f].value = Chunk(produced[fetches[f].conn] + 1)]
    /\ produced' = [produced EXCEPT ![fetches[f].conn] = @ + 1]
    /\ UNCHANGED <<first, depleted, inFlight, calls>>

FetchEnd(f) ==
    /\ f \in 1..Len(fetches)
    /\ Oldest(f)
    /\ \A c \in 1..Len(calls) : ~Ready(c)
    /\ fetches' = [fetches EXCEPT ![f].status = "fulfilled", ![f].value = EmptyChunk]
    /\ UNCHANGED <<first, depleted, inFlight, calls, produced>>

FetchFail(f) ==
    /\ f \in 1..Len(fetches)
    /\ Oldest(f)
    /\ \A c \in 1..Len(calls) : ~Ready(c)
    /\ fetches' = [fetches EXCEPT ![f].status = "rejected"]
    /\ UNCHANGED <<first, depleted, inFlight, calls, produced>>

\* --------------------------------------------------- insertArrowBatches
\* the contents a batch may have
BatchData == 1..NumBatchData
\* the batch sequences the method is called with
BatchSeqs == UNION {[1..n -> BatchData] : n \in 0..MaxBatches}
InsertOptions == {"create", "append"}

\* the messages of the IPC stream
SchemaMsg == [type |-> "schema", pos |-> 0, data |-> 0]
BatchMsg(k, d) == [type |-> "batch", pos |-> k, data |-> d]
EosMsg == [type |-> "eos", pos |-> 0, data |-> 0]

InsIdle ==
    /\ batches = <<>>
    /\ options = "create"
    /\ insPc = "idle"
    /\ insFirst = TRUE
    /\ consumed = 0
    /\ ipcBuffer = <<>>
    /\ writerLog = <<>>
    /\ ingests = <<>>
    /\ insResult = NoResult

\* utils.IPCBuffer.flush(): hands out what was written and leaves it empty
FlushOut(buf) == buf
FlushRest(buf) == <<>>

\* if (!first) : the loop flushes before every batch but the first
FlushesAlways(f) == TRUE
FlushesBefore(f) == ~f

\* first = false
InsFirstKept == TRUE
InsFirstAfter == FALSE

\* `await p` on an ingestion promise throws when it is rejected
IngestThrowsNever(k) == FALSE
IngestThrows(k) == ingests[k].status = "rejected"

\* this._bindings.insertArrowFromIPCStream(this._conn, buffer.flush(), options)
NewIngest(buf) ==
    [payload |-> FlushOut(buf), options |-> options, status |-> "pending",
     consumedAt |-> consumed, logAt |-> Len(writerLog),
     afterFinish |-> (\E j \in 1..Len(writerLog) : writerLog[j].op = "finish")]

\* the call: new IPCBuffer(), new RecordBatchStreamWriter().reset(buffer, schema),
\* which writes the schema message; let first = true
InsertCall(bs, o) ==
    /\ insPc = "idle"
    /\ batches' = bs
    /\ options' = o
    /\ ipcBuffer' = <<SchemaMsg>>
    /\ writerLog' = <<[op |-> "reset", pos |-> 0]>>
    /\ insFirst' = TRUE
    /\ consumed' = 0
    /\ insPc' = "loop"
    /\ UNCHANGED <<ingests, insResult>>

\* for (const batch of batches): take the next batch, or leave the loop
LoopNext ==
    /\ insPc = "loop"
    /\ IF consumed < Len(batches)
       THEN /\ consumed' = consumed + 1
            /\ insPc' = IF FlushesBefore(insFirst) THEN "flush" ELSE "write"
       ELSE /\ consumed' = consumed
            /\ insPc' = "finish"
    /\ UNCHANGED <<batches, options, insFirst, ipcBuffer, writerLog, ingests, insResult>>

\* line 109: flush the buffer, issue the ingestion call, await it
LoopFlush ==
    /\ insPc = "flush"
    /\ ingests' = Append(ingests, NewIngest(ipcBuffer))
    /\ ipcBuffer' = FlushRest(ipcBuffer)
    /\ insPc' = "await"
    /\ UNCHANGED <<batches, options, insFirst, consumed, writerLog, insResult>>

\* line 109 without its await: the loop goes on while the call is outstanding
LoopResumeNoAwait ==
    /\ insPc = "await"
    /\ insPc' = "write"
    /\ UNCHANGED <<batches, options, insFirst, consumed, ipcBuffer, writerLog, ingests,
                   insResult>>

\* line 109, resumed: the awaited ingestion call has settled
LoopResume ==
    /\ insPc = "await"
    /\ ingests[Len(ingests)].status # "pending"
    /\ IF IngestThrows(Len(ingests))
       THEN /\ insPc' = "failed"
            /\ insResult' = Rejected(Len(ingests))
       ELSE /\ insPc' = "write"
            /\ insResult' = insResult
    /\ UNCHANGED <<batches, options, insFirst, consumed, ipcBuffer, writerLog, ingests>>

\* first = false; writer.write(batch)
LoopWrite ==
    /\ insPc = "write"
    /\ insFirst' = InsFirstAfter
    /\ ipcBuffer' = Append(ipcBuffer, BatchMsg(consumed, batches[consumed]))
    /\ writerLog' = Append(writerLog, [op |-> "write", pos |-> consumed])
    /\ insPc' = "loop"
    /\ UNCHANGED <<batches, options, consumed, ingests, insResult>>

\* the method without writer.finish(): the stream is left unterminated
FinishSkipped ==
    /\ insPc = "finish"
    /\ insPc' = "finalFlush"
    /\ UNCHANGED <<batches, options, insFirst, consumed, ipcBuffer, writerLog, ingests,
                   insResult>>

\* writer.finish(): writes the end-of-stream marker
Finish ==
    /\ insPc = "finish"
    /\ ipcBuffer' = Append(ipcBuffer, EosMsg)
    /\ writerLog' = Append(writerLog, [op |-> "finish", pos |-> 0])
    /\ insPc' = "finalFlush"
    /\ UNCHANGED <<batches, options, insFirst, consumed, ingests, insResult>>

\* a final flush that sends nothing when no batch was written
FinalFlushSkipsEmpty ==
    /\ insPc = "finalFlush"
    /\ IF consumed = 0
       THEN /\ insPc' = "done"
            /\ insResult' = Fulfilled(TRUE, NullValue)
            /\ UNCHANGED <<ingests, ipcBuffer>>
       ELSE /\ ingests' = Append(ingests, NewIngest(ipcBuffer))
            /\ ipcBuffer' = FlushRest(ipcBuffer)
            /\ insPc' = "finalAwait"
            /\ insResult' = insResult
    /\ UNCHANGED <<batches, options, insFirst, consumed, writerLog>>

\* line 115: flush the buffer, issue the last ingestion call, await it
FinalFlush ==
    /\ insPc = "finalFlush"
    /\ ingests' = Append(ingests, NewIngest(ipcBuffer))
    /\ ipcBuffer' = FlushRest(ipcBuffer)
    /\ insPc' = "finalAwait"
    /\ UNCHANGED <<batches, options, insFirst, consumed, writerLog, insResult>>

\* line 115, resumed: the method returns, or throws
FinalResume ==
    /\ insPc = "finalAwait"
    /\ ingests[Len(ingests)].status # "pending"
    /\ IF IngestThrows(Len(ingests))
       THEN /\ insPc' = "failed"
            /\ insResult' = Rejected(Len(ingests))
       ELSE /\ insPc' = "done"
            /\ insResult' = Fulfilled(TRUE, NullValue)
    /\ UNCHANGED <<batches, options, insFirst, consumed, ipcBuffer, writerLog, ingests>>

\* the Binding Surface settles the oldest ingestion call that has not settled
IngestOk(k) ==
    /\ k \in 1..Len(ingests)
    /\ ingests[k].status = "pending"
    /\ \A j \in 1..(k - 1) : ingests[j].status # "pending"
    /\ ingests' = [ingests EXCEPT ![k].status = "fulfilled"]
    /\ UNCHANGED <<batches, options, insPc, insFirst, consumed, ipcBuffer, writerLog,
                   insResult>>

IngestFail(k) ==
    /\ k \in 1..Len(ingests)
    /\ ingests[k].status = "pending"
    /\ \A j \in 1..(k - 1) : ingests[j].status # "pending"
    /\ ingests' = [ingests EXCEPT ![k].status = "rejected"]
    /\ UNCHANGED <<batches, options, insPc, insFirst, consumed, ipcBuffer, writerLog,
                   insResult>>

\* ----------------------------------------------- AsyncPreparedStatement
\* this.connectionId and this.statementId, fixed by the constructor
StmtConn == IterConn(MainIter)
StmtId == 1
StmtOps == {"close", "run", "send"}

StmtIdle ==
    /\ stmtCalls = <<>>
    /\ requests = <<>>
    /\ released = FALSE

\* the Binding Surface primitive each method calls
Primitive(op) ==
    CASE op = "close" -> "closePrepared"
      [] op = "run" -> "runPrepared"
      [] op = "send" -> "sendPrepared"

\* a close() of this statement has completed
CloseCompleted ==
    \E c \in 1..Len(stmtCalls) :
        /\ stmtCalls[c].op = "close"
        /\ stmtCalls[c].pc = "done"
        /\ stmtCalls[c].result.kind = "fulfilled"

\* close(), run(params), send(params): each issues its primitive with the
\* connection and statement identifiers and awaits it; none looks at any state
StmtCall(op) ==
    /\ Len(stmtCalls) < MaxStmtCalls
    /\ requests' = Append(requests, [op |-> Primitive(op), conn |-> StmtConn,
                                     stmt |-> StmtId, status |-> "pending"])
    /\ stmtCalls' = Append(stmtCalls, [op |-> op, pc |-> "await",
                                       request |-> Len(requests) + 1,
                                       afterClose |-> CloseCompleted,
                                       result |-> NoResult])
    /\ UNCHANGED released

\* the awaited primitive has settled: close() returns, run() decodes the result
\* buffer into a table, send() wraps the header in an iterator and a reader
StmtResume(c) ==
    /\ c \in 1..Len(stmtCalls)
    /\ stmtCalls[c].pc = "await"
    /\ requests[stmtCalls[c].request].status # "pending"
    /\ \A d \in 1..(c - 1) :
            stmtCalls[d].pc = "await" => requests[stmtCalls[d].request].status = "pending"
    /\ stmtCalls' = [stmtCalls EXCEPT
            ![c].pc = "done",
            ![c].result =
                IF requests[stmtCalls[c].request].status = "rejected"
                THEN Rejected(stmtCalls[c].request)
                ELSE CASE stmtCalls[c].op = "close" -> Fulfilled(TRUE, NullValue)
                       [] stmtCalls[c].op = "run" -> Fulfilled(TRUE, Bytes(Chunk(1)))
                       [] stmtCalls[c].op = "send" ->
                                Fulfilled(FALSE, Bytes(Header(MainIter)))]
    /\ UNCHANGED <<requests, released>>

\* The Binding Surface settles the oldest request of the connection.  What the
\* engine does with a released statement identifier is undefined: it may
\* accept the request as well as reject it.
RequestOk(r) ==
    /\ r \in 1..Len(requests)
    /\ requests[r].status = "pending"
    /\ \A q \in 1..(r - 1) : requests[q].status # "pending"
    /\ \A c \in 1..Len(stmtCalls) :
            stmtCalls[c].pc = "await" => requests[stmtCalls[c].request].status = "pending"
    /\ requests' = [requests EXCEPT ![r].status = "fulfilled"]
    /\ released' = (released \/ requests[r].op = "closePrepared")
    /\ UNCHANGED stmtCalls

RequestFail(r) ==
    /\ r \in 1..Len(requests)
    /\ requests[r].status = "pending"
    /\ \A q \in 1..(r - 1) : requests[q].status # "pending"
    /\ \A c \in 1..Len(stmtCalls) :
            stmtCalls[c].pc = "await" => requests[stmtCalls[c].request].status = "pending"
    /\ requests' = [requests EXCEPT ![r].status = "rejected"]
    /\ UNCHANGED <<stmtCalls, released>>

\* ------------------------------------------------ AsyncDuckDBConnection
\* this._conn: the connection MainIter was created on by an earlier sendQuery
ConnId == IterConn(MainIter)
ConnOps == {"runQuery", "sendQuery", "close"}

ConnIdle ==
    /\ connCalls = <<>>
    /\ connReqs = <<>>
    /\ connClosed = FALSE

\* the Binding Surface primitive each method calls
ConnPrimitive(op) ==
    CASE op = "runQuery" -> "runQuery"
      [] op = "sendQuery" -> "sendQuery"
      [] op = "close" -> "disconnect"

\* a close() of the connection has completed
ConnCloseCompleted ==
    \E c \in 1..Len(connCalls) :
        /\ connCalls[c].op = "close"
        /\ connCalls[c].pc = "done"
        /\ connCalls[c].result.kind = "fulfilled"

\* a connection method suspended at an await whose promise has settled
ConnReady(c) ==
    /\ connCalls[c].pc = "await"
    /\ connReqs[connCalls[c].request].status # "pending"

\* no continuation is waiting to run
NoneReady ==
    /\ \A c \in 1..Len(calls) : ~Ready(c)
    /\ \A c \in 1..Len(connCalls) : ~ConnReady(c)

\* runQuery(text), sendQuery(text), close(): each logs (the queries) and
\* issues its primitive with this._conn at once, then awaits it; none looks
\* at whether another request of the connection is outstanding.  `after`
\* notes how many fetches had been issued before this request.
ConnCall(op) ==
    /\ Len(connCalls) < MaxConnCalls
    /\ connReqs' = Append(connReqs, [op |-> ConnPrimitive(op), conn |-> ConnId,
                                     status |-> "pending", after |-> Len(fetches)])
    /\ connCalls' = Append(connCalls, [op |-> op, pc |-> "await",
                                       request |-> Len(connReqs) + 1,
                                       result |-> NoResult])
    /\ UNCHANGED connClosed

\* the awaited primitive has settled: close() returns, runQuery() decodes the
\* buffer into a table, sendQuery() wraps the header in a new iterator
ConnResume(c) ==
    /\ c \in 1..Len(connCalls)
    /\ ConnReady(c)
    /\ \A d \in 1..(c - 1) : ~ConnReady(d)
    /\ connCalls' = [connCalls EXCEPT
            ![c].pc = "done",
            ![c].result =
                IF connReqs[connCalls[c].request].status = "rejected"
                THEN Rejected(connCalls[c].request)
                ELSE CASE connCalls[c].op = "close" -> Fulfilled(TRUE, NullValue)
                       [] connCalls[c].op = "runQuery" -> Fulfilled(TRUE, Bytes(Chunk(1)))
                       [] connCalls[c].op = "sendQuery" ->
                                Fulfilled(FALSE, Bytes(Header(MainIter)))]
    /\ UNCHANGED <<connReqs, connClosed>>

\* request r is the oldest request of the connection that has not settled,
\* fetches included
ConnOldest(r) ==
    /\ connReqs[r].status = "pending"
    /\ \A q \in 1..(r - 1) : connReqs[q].status # "pending"
    /\ \A f \in 1..Len(fetches) :
            (f <= connReqs[r].after /\ fetches[f].conn = connReqs[r].conn)
                => fetches[f].status # "pending"

\* fetch f has no request of its connection before it that has not settled
FetchOldest(f) ==
    /\ Oldest(f)
    /\ \A r \in 1..Len(connReqs) :
            (connReqs[r].after < f /\ connReqs[r].conn = fetches[f].conn)
                => connReqs[r].status # "pending"

\* The Binding Surface settles the oldest request of the connection.  Once the
\* connection has been released it rejects whatever is sent on it.
ConnReqOk(r) ==
    /\ r \in 1..Len(connReqs)
    /\ ConnOldest(r)
    /\ NoneReady
    /\ ~connClosed
    /\ connReqs' = [connReqs EXCEPT ![r].status = "fulfilled"]
    /\ connClosed' = (connReqs[r].op = "disconnect")
    /\ UNCHANGED connCalls

ConnReqFail(r) ==
    /\ r \in 1..Len(connReqs)
    /\ ConnOldest(r)
    /\ NoneReady
    /\ connReqs' = [connReqs EXCEPT ![r].status = "rejected"]
    /\ UNCHANGED <<connCalls, connClosed>>

\* the fetches of an iterator of this connection, settled in the same order
ConnFetchChunk(f) ==
    /\ f \in 1..Len(fetches)
    /\ FetchOldest(f)
    /\ NoneReady
    /\ ~connClosed
    /\ FetchChunk(f)

ConnFetchEnd(f) ==
    /\ f \in 1..Len(fetches)
    /\ FetchOldest(f)
    /\ NoneReady
    /\ ~connClosed
    /\ FetchEnd(f)

ConnFetchFail(f) ==
    /\ f \in 1..Len(fetches)
    /\ FetchOldest(f)
    /\ NoneReady
    /\ FetchFail(f)

\* ------------------------------------------------------- specifications
\* One iterator, next() called at any time, also before earlier calls settled.
Init == IterInit /\ InsIdle /\ StmtIdle /\ ConnIdle

Next ==
    \/ NextCall(MainIter) /\ UNCHANGED <<insVars, stmtVars, connVars>>
    \/ \E c \in 1..Len(calls) : Resume(c) /\ UNCHANGED <<insVars, stmtVars, connVars>>
    \/ \E f \in 1..Len(fetches) : FetchChunk(f) /\ UNCHANGED <<insVars, stmtVars, connVars>>
    \/ \E f \in 1..Len(fetches) : FetchEnd(f) /\ UNCHANGED <<insVars, stmtVars, connVars>>
    \/ \E f \in 1..Len(fetches) : FetchFail(f) /\ UNCHANGED <<insVars, stmtVars, connVars>>

Spec == Init /\ [][Next]_vars

\* One iterator, next() called only after the previous call has settled.
SeqNext ==
    \/ ~Pending(MainIter) /\ NextCall(MainIter) /\ UNCHANGED <<insVars, stmtVars, connVars>>
    \/ \E c \in 1..Len(calls) : Resume(c) /\ UNCHANGED <<insVars, stmtVars, connVars>>
    \/ \E f \in 1..Len(fetches) : FetchChunk(f) /\ UNCHANGED <<insVars, stmtVars, connVars>>
    \/ \E f \in 1..Len(fetches) : FetchEnd(f) /\ UNCHANGED <<insVars, stmtVars, connVars>>
    \/ \E f \in 1..Len(fetches) : FetchFail(f) /\ UNCHANGED <<insVars, stmtVars, connVars>>

SpecSeq == Init /\ [][SeqNext]_vars

\* insertArrowBatches called once, on any batch sequence up to MaxBatches long.
InsNext ==
    \/ \E bs \in BatchSeqs, o \in InsertOptions :
            InsertCall(bs, o) /\ UNCHANGED <<iterVars, stmtVars, connVars>>
    \/ LoopNext /\ UNCHANGED <<iterVars, stmtVars, connVars>>
    \/ LoopFlush /\ UNCHANGED <<iterVars, stmtVars, connVars>>
    \/ LoopResume /\ UNCHANGED <<iterVars, stmtVars, connVars>>
    \/ LoopWrite /\ UNCHANGED <<iterVars, stmtVars, connVars>>
    \/ Finish /\ UNCHANGED <<iterVars, stmtVars, connVars>>
    \/ FinalFlush /\ UNCHANGED <<iterVars, stmtVars, connVars>>
    \/ FinalResume /\ UNCHANGED <<iterVars, stmtVars, connVars>>
    \/ \E k \in 1..Len(ingests) : IngestOk(k) /\ UNCHANGED <<iterVars, stmtVars, connVars>>
    \/ \E k \in 1..Len(ingests) : IngestFail(k) /\ UNCHANGED <<iterVars, stmtVars, connVars>>

SpecInsert == Init /\ [][InsNext]_vars

\* One prepared statement; close, run and send called in any order.
StmtNext ==
    \/ \E op \in StmtOps : StmtCall(op) /\ UNCHANGED <<iterVars, insVars, connVars>>
    \/ \E c \in 1..Len(stmtCalls) : StmtResume(c) /\ UNCHANGED <<iterVars, insVars, connVars>>
    \/ \E r \in 1..Len(requests) : RequestOk(r) /\ UNCHANGED <<iterVars, insVars, connVars>>
    \/ \E r \in 1..Len(requests) : RequestFail(r) /\ UNCHANGED <<iterVars, insVars, connVars>>

SpecStmt == Init /\ [][StmtNext]_vars

\* One connection and the iterator of a stream opened on it: next() and the
\* connection's runQuery, sendQuery and close called at any time.
ConnNext ==
    \/ /\ Len(calls) < MaxConnIterCalls
       /\ NextCall(MainIter)
       /\ UNCHANGED <<insVars, stmtVars, connVars>>
    \/ \E c \in 1..Len(calls) : Resume(c) /\ UNCHANGED <<insVars, stmtVars, connVars>>
    \/ \E f \in 1..Len(fetches) :
            ConnFetchChunk(f) /\ UNCHANGED <<insVars, stmtVars, connVars>>
    \/ \E f \in 1..Len(fetches) :
            ConnFetchEnd(f) /\ UNCHANGED <<insVars, stmtVars, connVars>>
    \/ \E f \in 1..Len(fetches) :
            ConnFetchFail(f) /\ UNCHANGED <<insVars, stmtVars, connVars>>
    \/ \E op \in ConnOps : ConnCall(op) /\ UNCHANGED <<iterVars, insVars, stmtVars>>
    \/ \E c \in 1..Len(connCalls) :
            ConnResume(c) /\ UNCHANGED <<iterVars, insVars, stmtVars>>
    \/ \E r \in 1..Len(connReqs) :
            ConnReqOk(r) /\ UNCHANGED <<iterVars, insVars, stmtVars>>
    \/ \E r \in 1..Len(connReqs) :
            ConnReqFail(r) /\ UNCHANGED <<iterVars, insVars, stmtVars>>

SpecConn == Init /\ [][ConnNext]_vars

\* the steps of a call of insertArrowBatches that is under way, and of the
\* Binding Surface answering it
InsRun == insPc # "idle" /\ InsNext

\* insertArrowBatches, with the event loop running every continuation that is
\* ready and the Binding Surface settling every call it was sent.
SpecInsertFair == Init /\ [][InsNext]_vars /\ WF_vars(InsRun)

\* Every iterator driven at once, each on its own connection, with calls that
\* may overlap.
MultiNext ==
    \/ \E i \in Iters :
            /\ Len(calls) < MaxMultiCalls
            /\ NextCall(i)
            /\ UNCHANGED <<insVars, stmtVars, connVars>>
    \/ \E c \in 1..Len(calls) : Resume(c) /\ UNCHANGED <<insVars, stmtVars, connVars>>
    \/ \E f \in 1..Len(fetches) : FetchChunk(f) /\ UNCHANGED <<insVars, stmtVars, connVars>>
    \/ \E f \in 1..Len(fetches) : FetchEnd(f) /\ UNCHANGED <<insVars, stmtVars, connVars>>
    \/ \E f \in 1..Len(fetches) : FetchFail(f) /\ UNCHANGED <<insVars, stmtVars, connVars>>

SpecMulti == Init /\ [][MultiNext]_vars

\* One iterator read to its end by a consumer that awaits every call, over a
\* result of at most MaxChunks data chunks: once they are produced the engine
\* answers a fetch with the zero-length chunk, unless it fails.
LiveCall ==
    ~Pending(MainIter) /\ NextCall(MainIter) /\ UNCHANGED <<insVars, stmtVars, connVars>>

LiveResume ==
    \E c \in 1..Len(calls) : Resume(c) /\ UNCHANGED <<insVars, stmtVars, connVars>>

LiveFetchChunk ==
    \E f \in 1..Len(fetches) :
        /\ produced[fetches[f].conn] < MaxChunks
        /\ FetchChunk(f)
        /\ UNCHANGED <<insVars, stmtVars, connVars>>

LiveFetchEnd ==
    \E f \in 1..Len(fetches) : FetchEnd(f) /\ UNCHANGED <<insVars, stmtVars, connVars>>

LiveFetchFail ==
    \E f \in 1..Len(fetches) : FetchFail(f) /\ UNCHANGED <<insVars, stmtVars, connVars>>

LiveNext == LiveCall \/ LiveResume \/ LiveFetchChunk \/ LiveFetchEnd \/ LiveFetchFail

\* The consumer keeps calling, the event loop runs every continuation that is
\* ready, and the Binding Surface settles every fetch it was sent.
SpecLive ==
    /\ Init
    /\ [][LiveNext]_vars
    /\ WF_vars(LiveCall)
    /\ WF_vars(LiveResume)
    /\ WF_vars(LiveFetchChunk \/ LiveFetchEnd \/ LiveFetchFail)

\* ---------------------------------------------------- history operators
\* the calls made on iterator i, as a set of call indices
CallsOf(i) == {c \in 1..Len(calls) : calls[c].iter = i}
\* the fetches iterator i issued, as a set of fetch ids
FetchesOf(i) == {f \in 1..Len(fetches) : fetches[f].iter = i}
\* the fetches of iterator i that have not settled
Outstanding(i) == {f \in FetchesOf(i) : fetches[f].status = "pending"}
\* call c has settled
Settled(c) == calls[c].pc = "done"
\* call c returned a data chunk: a non-empty buffer other than the header
ReturnedData(c) ==
    /\ Settled(c)
    /\ calls[c].result.kind = "fulfilled"
    /\ calls[c].awaiting # 0
    /\ calls[c].result.value.bytes # <<>>
\* call c is the one that saw the zero-length chunk
SawEnd(c) ==
    /\ Settled(c)
    /\ calls[c].awaiting # 0
    /\ calls[c].result = Fulfilled(TRUE, Bytes(EmptyChunk))
\* call c is the k-th call made on its iterator
Rank(c) == Cardinality({d \in CallsOf(calls[c].iter) : d <= c})

\* ------------------------------------------------------------- claims

\* C1: the first next() call of an iterator returns (header, done=false) and
\* issues no fetch; no other call returns the header; every fetch is issued by
\* a later call, so none is issued before the header has been yielded.
C1_HeaderFirstOnce ==
    \A i \in Iters : \A c \in CallsOf(i) :
        /\ Rank(c) = 1 =>
                /\ calls[c].result = Fulfilled(FALSE, Bytes(Header(i)))
                /\ \A f \in FetchesOf(i) : fetches[f].by # c
        /\ Rank(c) > 1 =>
                calls[c].result.value # Bytes(Header(i))
        /\ \A f \in FetchesOf(i) : \E h \in CallsOf(i) :
                h < fetches[f].by /\ calls[h].result.value = Bytes(Header(i))

\* the header has been yielded, data chunks have followed and the stream ended
C1_Witness ==
    /\ Len(calls) >= 4
    /\ calls[1].result = Fulfilled(FALSE, Bytes(Header(MainIter)))
    /\ \E c \in CallsOf(MainIter) : ReturnedData(c)
    /\ \E c \in CallsOf(MainIter) : SawEnd(c)

C3_AtMostOneOutstanding ==
    \A i \in Iters : Cardinality(Outstanding(i)) <= 1

\* C4: (calls made one after the other, no fetch rejected) the k-th call
\* returns the header for k = 1 and the engine's chunk k-1 afterwards, until
\* a call returns (empty, done=true); when that is call n+2, the engine has
\* produced n chunks and the iterator has issued n+1 fetches.
C4_SequentialStream ==
    \A i \in Iters :
        (\A f \in FetchesOf(i) : fetches[f].status # "rejected") =>
            \A c \in CallsOf(i) :
                (Settled(c) /\ \A d \in CallsOf(i) : d < c => ~calls[d].result.done) =>
                    \/ /\ Rank(c) = 1
                       /\ calls[c].result = Fulfilled(FALSE, Bytes(Header(i)))
                    \/ /\ Rank(c) > 1
                       /\ calls[c].result = Fulfilled(FALSE, Bytes(Chunk(Rank(c) - 1)))
                    \/ /\ Rank(c) > 1
                       /\ calls[c].result = Fulfilled(TRUE, Bytes(EmptyChunk))
                       /\ produced[IterConn(i)] = Rank(c) - 2
                       /\ Cardinality(FetchesOf(i)) = Rank(c) - 1

\* header, two chunks, then the end, in four calls and three fetches
C4_Witness ==
    /\ Len(calls) = 4
    /\ calls[2].result = Fulfilled(FALSE, Bytes(Chunk(1)))
    /\ calls[3].result = Fulfilled(FALSE, Bytes(Chunk(2)))
    /\ calls[4].result = Fulfilled(TRUE, Bytes(EmptyChunk))
    /\ Len(fetches) = 3

\* the stream of zero chunks: header, then the end, with one fetch
C4_WitnessEmpty ==
    /\ Len(calls) = 2
    /\ calls[2].result = Fulfilled(TRUE, Bytes(EmptyChunk))
    /\ Len(fetches) = 1

\* C5: a call that awaited a fetch which was rejected is rejected with that
\* fetch's error, whether the call issued the fetch itself or took it from the
\* in-flight slot; it returns neither a chunk nor done=true.
C5_FetchErrorPropagates ==
    \A c \in 1..Len(calls) :
        (Settled(c) /\ calls[c].awaiting # 0
                    /\ fetches[calls[c].awaiting].status = "rejected") =>
            calls[c].result = Rejected(calls[c].awaiting)

\* one call was rejected by its own fetch and another by a prefetch
C5_Witness ==
    /\ \E c \in 1..Len(calls) :
            /\ ~calls[c].viaInFlight
            /\ calls[c].result.kind = "rejected"
    /\ \E c \in 1..Len(calls) :
            /\ calls[c].viaInFlight
            /\ calls[c].result.kind = "rejected"

\* C6: (calls made one after the other) once a fetch of an iterator has been
\* rejected, the iterator issues no later fetch and no later call returns a
\* data chunk: every later call is rejected or reports done.
C6_FailureIsTerminal ==
    \A i \in Iters : \A f \in FetchesOf(i) :
        fetches[f].status = "rejected" =>
            /\ \A g \in FetchesOf(i) : g <= f
            /\ \A c \in CallsOf(i) :
                    (Settled(c) /\ calls[c].awaiting > f) => ~ReturnedData(c)

\* the case that does hold: a rejected prefetch stays in the in-flight slot
C6_PrefetchFailureSticks ==
    \A i \in Iters :
        (inFlight[i] # 0 /\ fetches[inFlight[i]].status = "rejected") =>
            \A f \in FetchesOf(i) : f <= inFlight[i]

\* the positions of the batches an ingestion call carries, in payload order
BatchesIn(payload) ==
    SelectSeq(payload, LAMBDA m : m.type = "batch")

\* C7: (a sequence of n >= 1 batches) ingestion call k carries batch k and no
\* other batch; call k < n is issued when batch k+1 has been taken and not yet
\* written, call n after the writer was finished; every call before the last
\* one issued has settled successfully; and a successful run has issued
\* exactly n calls.
C7_OneCallPerBatch ==
    Len(batches) >= 1 =>
        /\ \A k \in 1..Len(ingests) :
                /\ k <= Len(batches)
                /\ BatchesIn(ingests[k].payload) = <<BatchMsg(k, batches[k])>>
                /\ ingests[k].afterFinish = (k = Len(batches))
                /\ ingests[k].consumedAt = (IF k < Len(batches) THEN k + 1 ELSE k)
                /\ ingests[k].logAt = (IF k < Len(batches) THEN k + 1 ELSE k + 2)
                /\ k < Len(ingests) => ingests[k].status = "fulfilled"
        /\ insPc = "done" => Len(ingests) = Len(batches)

\* three batches went out in three calls
C7_Witness ==
    /\ insPc = "done"
    /\ Len(batches) = 3
    /\ Len(ingests) = 3

\* C8: (the empty batch sequence) the only ingestion call is issued after the
\* writer was finished and carries the schema and the end-of-stream marker;
\* the method does not end without having issued it.
C8_EmptyStillSends ==
    (insPc # "idle" /\ Len(batches) = 0) =>
        /\ Len(ingests) <= 1
        /\ \A k \in 1..Len(ingests) :
                /\ ingests[k].afterFinish
                /\ ingests[k].payload = <<SchemaMsg, EosMsg>>
        /\ insPc \in {"done", "failed"} => Len(ingests) = 1

\* the empty sequence was inserted with one call
C8_Witness ==
    /\ insPc = "done"
    /\ Len(batches) = 0
    /\ Len(ingests) = 1

\* C9: a rejected ingestion call is the last call issued; nothing is written to
\* the encoder after it was issued; the method does not continue past its
\* await, and ends rejected with that call's error.
C9_FailureHalts ==
    \A k \in 1..Len(ingests) :
        ingests[k].status = "rejected" =>
            /\ k = Len(ingests)
            /\ Len(writerLog) = ingests[k].logAt
            /\ insPc \in {"await", "finalAwait", "failed"}
            /\ insPc = "failed" => insResult = Rejected(k)
            /\ insResult.kind # "fulfilled"

\* the second of three calls was rejected and the method has thrown
C9_Witness ==
    /\ insPc = "failed"
    /\ Len(batches) = 3
    /\ Len(ingests) = 2
    /\ ingests[2].status = "rejected"
    /\ insResult = Rejected(2)

\* C10: a run or send that is called after a close() of the statement has
\* completed does not succeed: it ends rejected.
C10_UseAfterCloseFails ==
    \A c \in 1..Len(stmtCalls) :
        (stmtCalls[c].op \in {"run", "send"} /\ stmtCalls[c].afterClose
                                             /\ stmtCalls[c].pc = "done") =>
            stmtCalls[c].result.kind = "rejected"

\* what the code does on that path: the primitive goes out with the released
\* statement identifier, as for any other call
C10_RequestIssuedAnyway ==
    \A c \in 1..Len(stmtCalls) :
        /\ stmtCalls[c].request \in 1..Len(requests)
        /\ requests[stmtCalls[c].request].op = Primitive(stmtCalls[c].op)
        /\ requests[stmtCalls[c].request].stmt = StmtId

\* the requests of connection n that have not settled: fetches of its
\* iterators and requests of its own methods
OutstandingOn(n) ==
    Cardinality({f \in 1..Len(fetches) :
                    fetches[f].conn = n /\ fetches[f].status = "pending"})
    + Cardinality({r \in 1..Len(connReqs) :
                    connReqs[r].conn = n /\ connReqs[r].status = "pending"})

\* C11: a connection identifier never has more than one Binding Surface
\* request outstanding, the prefetch of an iterator included.
C11_OneRequestPerConnection ==
    \A n \in Conns : OutstandingOn(n) <= 1

\* the case the claim names: a method of the connection was started, and its
\* request sent, while the iterator's prefetch was outstanding
C11_SentBesidePrefetch ==
    \E r \in 1..Len(connReqs) :
        /\ connReqs[r].status = "pending"
        /\ inFlight[MainIter] # 0
        /\ fetches[inFlight[MainIter]].status = "pending"

\* C12: once close() of the connection has completed, no next() of an iterator
\* of that connection returns a data chunk, whether it was pending or is
\* called afterwards.
C12_CloseInvalidates ==
    [][ConnCloseCompleted =>
            \A c \in 1..Len(calls') :
                (ReturnedData(c))' => (c <= Len(calls) /\ ReturnedData(c))]_vars

\* the calls that returned the chunk of fetch f
ReturnedBy(f) ==
    {c \in 1..Len(calls) :
        Settled(c) /\ calls[c].awaiting = f /\ calls[c].result.kind = "fulfilled"}

\* no data chunk is returned by two calls
C13_NoDuplicate ==
    \A f \in 1..Len(fetches) :
        (fetches[f].status = "fulfilled" /\ fetches[f].value # EmptyChunk) =>
            Cardinality(ReturnedBy(f)) <= 1

\* no data chunk is dropped: it was taken by a call, or it still is in the slot
C13_NoDiscard ==
    \A f \in 1..Len(fetches) :
        (fetches[f].status = "fulfilled" /\ fetches[f].value # EmptyChunk) =>
            \/ \E c \in 1..Len(calls) : calls[c].awaiting = f
            \/ inFlight[fetches[f].iter] = f

\* C13: in every interleaving of next() calls, each data chunk the engine
\* returned to a fetch of the iterator is returned by exactly one call: by no
\* two calls, and it is not dropped without a call that takes it.
C13_EachChunkOnce == C13_NoDuplicate /\ C13_NoDiscard

\* an ingestion call is outstanding while a later batch is being written, or
\* has been written, into the encoder
Overlap ==
    \E k \in 1..Len(ingests) :
        /\ ingests[k].status = "pending"
        /\ \/ insPc = "write"
           \/ Len(writerLog) > ingests[k].logAt

\* C14, as claimed: a run on at least two batches in which no ingestion call
\* fails comes to a state where a call is outstanding while the next batch is
\* being, or has been, written.
C14_OverlapOccurs ==
    (insPc # "idle" /\ Len(batches) >= 2)
        ~> (Overlap \/ \E k \in 1..Len(ingests) : ingests[k].status = "rejected")

\* C14, amended: serialization and transmission alternate and never overlap.
\* While an ingestion call is outstanding the method is suspended at its await
\* and nothing has been written since the call was issued; batch k+1 is
\* written only after call k has settled successfully.
C14_NoOverlap ==
    /\ ~Overlap
    /\ \A k \in 1..Len(ingests) :
            ingests[k].status = "pending" => insPc \in {"await", "finalAwait"}
    /\ \A j \in 1..Len(writerLog) :
            (writerLog[j].op = "write" /\ writerLog[j].pos >= 2) =>
                /\ Len(ingests) >= writerLog[j].pos - 1
                /\ ingests[writerLog[j].pos - 1].status = "fulfilled"

\* batch 2 was written after the call carrying batch 1 had settled, and the
\* call carrying batch 2 is outstanding with batch 3 taken but not written
C14_Witness ==
    /\ Len(batches) = 3
    /\ Len(ingests) = 2
    /\ ingests[1].status = "fulfilled"
    /\ ingests[2].status = "pending"
    /\ consumed = 3
    /\ \E j \in 1..Len(writerLog) : writerLog[j].op = "write" /\ writerLog[j].pos = 2

\* the encoder calls made so far, by kind
WritesDone == {j \in 1..Len(writerLog) : writerLog[j].op = "write"}
FinishesDone == {j \in 1..Len(writerLog) : writerLog[j].op = "finish"}

\* the encoder log is reset, then write(1), write(2), ... in order, then at
\* most one finish, which comes only after every batch has been written
EncoderInOrder ==
    /\ Len(writerLog) <= Len(batches) + 2
    /\ \A j \in 1..Len(writerLog) :
            IF j = 1 THEN writerLog[j].op = "reset"
            ELSE IF j <= Len(batches) + 1
                 THEN writerLog[j] = [op |-> "write", pos |-> j - 1]
                 ELSE writerLog[j].op = "finish"

\* C15, as claimed: when a run has ended, in success or in failure, every
\* batch consumed was written exactly once, in order, and the encoder was
\* finalized exactly once, after the last write and before the final flush.
C15_ExactlyOnce ==
    insPc \in {"done", "failed"} =>
        /\ EncoderInOrder
        /\ Cardinality(WritesDone) = consumed
        /\ Cardinality(FinishesDone) = 1
        /\ ingests[Len(ingests)].afterFinish

\* C15, amended: the batches are taken once and in order and written in that
\* order, each at most once; at most one batch (the one taken last) is taken
\* but not written; the encoder is finalized at most once, after all batches
\* and before the only flush that follows it. A successful run writes every
\* batch and finalizes exactly once. A run that fails at the final call has
\* done the same; a run that fails at a call inside the loop has taken one
\* batch more than it has written and never finalizes the encoder.
C15_EncoderDiscipline ==
    /\ insPc # "idle" => EncoderInOrder
    /\ consumed <= Len(batches)
    /\ Cardinality(WritesDone) <= consumed
    /\ consumed <= Cardinality(WritesDone) + 1
    /\ Cardinality(FinishesDone) <= 1
    /\ FinishesDone # {} <=> insPc \in {"finalFlush", "finalAwait"} \/
                             (insPc \in {"done", "failed"} /\ ingests[Len(ingests)].afterFinish)
    /\ \A k \in 1..Len(ingests) : ingests[k].afterFinish => k = Len(ingests)
    /\ insPc = "done" =>
            /\ Cardinality(WritesDone) = Len(batches)
            /\ consumed = Len(batches)
            /\ Cardinality(FinishesDone) = 1
            /\ ingests[Len(ingests)].afterFinish
    /\ insPc = "failed" =>
            IF ingests[Len(ingests)].afterFinish
            THEN /\ Cardinality(WritesDone) = Len(batches)
                 /\ consumed = Len(batches)
                 /\ Cardinality(FinishesDone) = 1
            ELSE /\ Cardinality(WritesDone) = consumed - 1
                 /\ FinishesDone = {}

\* a run on three batches failed at the call carrying batch 2: batch 3 was
\* taken and never written, and the encoder was never finalized
C15_Witness ==
    /\ insPc = "failed"
    /\ Len(batches) = 3
    /\ consumed = 3
    /\ Cardinality(WritesDone) = 2
    /\ FinishesDone = {}

\* a run on three batches succeeded: three writes and one finish
C15_WitnessDone ==
    /\ insPc = "done"
    /\ Len(batches) = 3
    /\ Cardinality(WritesDone) = 3
    /\ Cardinality(FinishesDone) = 1

\* the most recent next() call on the main iterator
LastCall == Len(calls)

\* between calls: at least one call was made and none is suspended
BetweenCalls == Len(calls) > 0 /\ ~Pending(MainIter)

\* the most recent call threw the error of a fetch it had taken from the slot
LastThrewPrefetch ==
    /\ calls[LastCall].result.kind = "rejected"
    /\ calls[LastCall].viaInFlight

\* C16, as claimed: between sequential next() calls the slot holds a fetch
\* exactly when the most recently settled call returned a non-empty data
\* chunk, and it is empty before the first call.
C16_SlotIffData ==
    /\ Len(calls) = 0 => inFlight[MainIter] = 0
    /\ BetweenCalls => (inFlight[MainIter] # 0 <=> ReturnedData(LastCall))

\* What the code keeps instead: between sequential next() calls the slot holds
\* a fetch exactly when the most recently settled call returned a non-empty data chunk
\* or threw the error of a prefetch.  In the first case the fetch in the slot
\* is the one that call issued before it returned; in the second it is the
\* rejected prefetch itself, which is never cleared.  The slot is empty
\* before the first call, after the header, after the zero-length chunk and
\* after a failed direct fetch.
C16_SlotIffDataOrFailedPrefetch ==
    /\ Len(calls) = 0 => inFlight[MainIter] = 0
    /\ BetweenCalls =>
          /\ inFlight[MainIter] # 0 <=> (ReturnedData(LastCall) \/ LastThrewPrefetch)
          /\ ReturnedData(LastCall) =>
                /\ inFlight[MainIter] \in FetchesOf(MainIter)
                /\ fetches[inFlight[MainIter]].by = LastCall
          /\ LastThrewPrefetch =>
                /\ inFlight[MainIter] = calls[LastCall].awaiting
                /\ fetches[inFlight[MainIter]].status = "rejected"

\* a data chunk was returned and the prefetch the call issued is in the slot
C16_Witness ==
    /\ BetweenCalls
    /\ LastCall >= 3
    /\ ReturnedData(LastCall)
    /\ inFlight[MainIter] # 0
    /\ fetches[inFlight[MainIter]].status = "pending"

\* a prefetch failed, the call that awaited it threw, and the slot still holds it
C16_WitnessFailedPrefetch ==
    /\ BetweenCalls
    /\ LastThrewPrefetch
    /\ inFlight[MainIter] # 0

\* this step is a fetch failure in iterator i: the Binding Surface rejects one
\* of its fetches, or one of its next() calls throws the error of a fetch
FailsIn(i) ==
    \/ \E f \in FetchesOf(i) :
            fetches[f].status = "pending" /\ fetches'[f].status = "rejected"
    \/ \E c \in CallsOf(i) :
            calls[c].pc = "await" /\ calls'[c].result.kind = "rejected"

\* this step leaves everything of iterator j as it was: its fields, its
\* fetches and the calls made on it
Untouched(j) ==
    /\ first'[j] = first[j]
    /\ depleted'[j] = depleted[j]
    /\ inFlight'[j] = inFlight[j]
    /\ \A f \in 1..Len(fetches') :
            fetches'[f].iter = j => (f <= Len(fetches) /\ fetches'[f] = fetches[f])
    /\ \A c \in 1..Len(calls') :
            calls'[c].iter = j => (c <= Len(calls) /\ calls'[c] = calls[c])

\* C17: a fetch failure in one iterator leaves first, depleted and the
\* in-flight slot of every other iterator unchanged, together with the other
\* iterators' fetches and calls; every fetch carries the connection identifier
\* its iterator was constructed with; a call only awaits, and only throws the
\* error of, a fetch of its own iterator.
C17_FailureIsolated ==
    [][/\ \A i \in Iters : FailsIn(i) => \A j \in Iters \ {i} : Untouched(j)
       /\ \A f \in 1..Len(fetches') : fetches'[f].conn = IterConn(fetches'[f].iter)
       /\ \A c \in 1..Len(calls') :
            /\ calls'[c].awaiting # 0 => fetches'[calls'[c].awaiting].iter = calls'[c].iter
            /\ calls'[c].result.kind = "rejected" =>
                    /\ calls'[c].result.error = calls'[c].awaiting
                    /\ fetches'[calls'[c].awaiting].status = "rejected"]_vars

\* a call on the main iterator threw a fetch error; the other iterator, with a
\* prefetch in its slot all along, returned a data chunk after that
C17_Witness ==
    \E c \in CallsOf(MainIter) : \E d \in 1..Len(calls) :
        /\ calls[c].result.kind = "rejected"
        /\ calls[d].iter # MainIter
        /\ d > c
        /\ ReturnedData(d)
        /\ inFlight[calls[d].iter] # 0
        /\ ~depleted[calls[d].iter]

\* a next() call has returned done=true
DoneReceived ==
    \E c \in CallsOf(MainIter) :
        Settled(c) /\ calls[c].result.kind = "fulfilled" /\ calls[c].result.done

\* a fetch has failed
SomeFetchRejected == \E f \in 1..Len(fetches) : fetches[f].status = "rejected"

\* C18: when no fetch fails and the result is finite, a consumer that keeps
\* calling next() one call after the other eventually receives done=true; the
\* call that receives it is call number (data chunks + 2), counting the header
\* call, and the iterator has issued (data chunks + 1) fetches by then and
\* issues none afterwards.
C18_SelfTerminating ==
    /\ <>(DoneReceived \/ SomeFetchRejected)
    /\ [](\A c \in CallsOf(MainIter) :
            (SawEnd(c) /\ ~SomeFetchRejected) =>
                /\ c = produced[IterConn(MainIter)] + 2
                /\ Len(fetches) = produced[IterConn(MainIter)] + 1)

\* done=true was received after every data chunk of the result, with no
\* fetch failed
C18_Witness ==
    /\ DoneReceived
    /\ ~SomeFetchRejected
    /\ produced[IterConn(MainIter)] = MaxChunks
    /\ \E c \in CallsOf(MainIter) : SawEnd(c)

\* C19: the depleted flag of an iterator, once true, never becomes false
\* again, whatever the interleaving of next() calls and whatever the engine
\* answers; a call that was already awaiting a fetch when depletion was
\* recorded starts no new prefetch.
C19_DepletedMonotonic ==
    [][\A i \in Iters :
            depleted[i] =>
                /\ depleted'[i]
                /\ \A f \in 1..Len(fetches') : fetches'[f].iter = i => f <= Len(fetches)]_vars

====
